---- MODULE Spec2Model ----
(***************************************************************************)
(* Model of the inference engine of financial-news-classifier              *)
(* (src/core/infer.py): the ModelLoader singleton with its local/remote    *)
(* source resolution, predict, predict_batch and set_device.               *)
(*                                                                         *)
(* Python values are modelled as follows.  A Python object reference is a  *)
(* record with a "kind" field; None is the record None.  A str is a        *)
(* sequence of one-character strings, so that strip() and truthiness are   *)
(* computed and not assumed.  torch devices are the strings "cpu"/"cuda";  *)
(* an absent device argument is NoDevice.                                  *)
(***************************************************************************)
EXTENDS Integers, Sequences, FiniteSets, TLC

\* ----- bounds of the model -----
MaxTexts == 3
MaxBatch == 3
MaxAttempts == 2

\* ----- Config (infer.py:13-17) -----
HF_MODEL_ID == "TADSTech/financial-news-classifier"
LOCAL_MODEL_PATH == "src/model/saved/finbert"
OTHER_MODEL_ID == "other/model"
BATCH_SIZE == 32

None == [kind |-> "None"]
NoDevice == "None"
Devices == {"cpu", "cuda"}
ModelIds == {HF_MODEL_ID, OTHER_MODEL_ID}

\* ----- Python str -----
WS == " "
Str(chars) == [kind |-> "str", chars |-> chars]
IsStr(v) == v.kind = "str"

RECURSIVE lstrip(_)
lstrip(s) == IF s # <<>> /\ Head(s) = WS THEN lstrip(Tail(s)) ELSE s

RECURSIVE rstrip(_)
rstrip(s) == IF s # <<>> /\ s[Len(s)] = WS THEN rstrip(SubSeq(s, 1, Len(s) - 1)) ELSE s

\* str.strip(): leading and trailing whitespace removed
strip(s) == rstrip(lstrip(s))

\* bool(v): None, "" , [] and () are falsy, everything else modelled is truthy
Truthy(v) ==
    CASE v.kind = "None" -> FALSE
      [] v.kind = "str" -> v.chars # <<>>
      [] v.kind = "list" -> v.items # <<>>
      [] v.kind = "tuple" -> v.items # <<>>
      [] OTHER -> TRUE

\* the strings the callers pass: empty, whitespace only, padded and plain
TextChars == {<<>>, <<WS>>, <<"a">>, <<WS, "b">>}
TextValues == {Str(c) : c \in TextChars}

\* ----- the file system under LOCAL_MODEL_PATH -----
\* dir: the directory exists; config: config.json in it; encoder:
\* label_encoder.pkl in it.  Files exist only inside an existing directory.
FileSystems ==
    {f \in [dir : BOOLEAN, config : BOOLEAN, encoder : BOOLEAN] :
        (f.config \/ f.encoder) => f.dir}

VARIABLES
    _model,          \* ModelLoader._model
    _tokenizer,      \* ModelLoader._tokenizer
    _label_encoder,  \* ModelLoader._label_encoder
    _device,         \* ModelLoader._device
    fs,              \* the local model directory
    attempts,        \* number of load attempts made so far (instance ids)
    loads,           \* number of load attempts that ran to completion
    in_texts,           \* the argument a caller of predict_batch holds
    in_batch_size,      \* the batch size that caller passes
    in_file,            \* the path, file and arguments a caller of load_file holds
    in_feed,            \* the URL, feed and arguments a caller of fetch_rss holds
    in_save,            \* the records and format a caller of save_results holds
    pc,                 \* where each thread is in its call of get_model
    last             \* the last call: its arguments, the state before it, its outcome

vars == <<_model, _tokenizer, _label_encoder, _device, fs, attempts, loads,
          in_texts, in_batch_size, in_file, in_feed, in_save, pc, last>>

\* the threads of the process, and their positions when none is in a call
Threads == {"t1", "t2"}
Parked == [t \in Threads |-> [at |-> "idle", id |-> 0]]

Engine == [model |-> _model, tokenizer |-> _tokenizer,
           label_encoder |-> _label_encoder, device |-> _device]

\* check_local_model without its look for config.json
check_local_model_dir_only(f) == f.dir

\* infer.py:20-32
check_local_model(f) ==
    IF ~f.dir THEN FALSE ELSE f.config

\* infer.py:35-45
get_label_encoder_path(f) ==
    IF f.encoder THEN [kind |-> "path", where |-> "local"] ELSE None

\* the message of the FileNotFoundError of infer.py:88
ENCODER_NOT_FOUND == "label_encoder.pkl not found in local model directory"

\* the steps of load_model that call into a library and can raise
FailPoints == {"none", "tokenizer", "model", "to_device", "download", "unpickle"}

NoLoad == [entered |-> FALSE, use_local |-> FALSE, source |-> "None",
           tokenizer_from |-> "None", model_from |-> "None",
           hub_called |-> FALSE, encoder_from |-> "None", completed |-> FALSE]

\* label_encoder_source falling back to the hub when the local file is missing
label_encoder_source_fallback(use_local, f, fail) ==
    IF use_local /\ get_label_encoder_path(f) # None
    THEN [raised |-> FALSE, hub_called |-> FALSE, from |-> "local"]
    ELSE IF fail = "download"
         THEN [raised |-> TRUE, hub_called |-> TRUE, from |-> "None"]
         ELSE [raised |-> FALSE, hub_called |-> TRUE, from |-> "remote"]

\* label_encoder_source taking the local file whenever there is one
label_encoder_source_local_first(use_local, f, fail) ==
    IF get_label_encoder_path(f) # None
    THEN [raised |-> FALSE, hub_called |-> FALSE, from |-> "local"]
    ELSE IF use_local
         THEN [raised |-> TRUE, hub_called |-> FALSE, from |-> "None"]
         ELSE IF fail = "download"
              THEN [raised |-> TRUE, hub_called |-> TRUE, from |-> "None"]
              ELSE [raised |-> FALSE, hub_called |-> TRUE, from |-> "remote"]

\* Where the label encoder is read from (infer.py:84-95): with the local
\* directory as the source, the local file or FileNotFoundError; with the
\* remote source, hf_hub_download, which can raise.
label_encoder_source(use_local, f, fail) ==
    IF use_local
    THEN IF get_label_encoder_path(f) = None
         THEN [raised |-> TRUE, hub_called |-> FALSE, from |-> "None"]
         ELSE [raised |-> FALSE, hub_called |-> FALSE, from |-> "local"]
    ELSE IF fail = "download"
         THEN [raised |-> TRUE, hub_called |-> TRUE, from |-> "None"]
         ELSE [raised |-> FALSE, hub_called |-> TRUE, from |-> "remote"]

\* The body of the `if cls._model is None:` branch (infer.py:69-100), run
\* on engine e with file system f.  fail names the library call that raises
\* in this run (a step that is not reached cannot raise).  The result is the
\* engine after the branch, whether an exception left it, and what was read.
LoadBranch(e, f, model_id, fail, id) ==
    LET use_local == check_local_model(f)
        mid == IF use_local THEN LOCAL_MODEL_PATH ELSE model_id
        log0 == [NoLoad EXCEPT !.entered = TRUE, !.use_local = use_local, !.source = mid]
        \* cls._tokenizer = AutoTokenizer.from_pretrained(model_id)
        tok == [kind |-> "tokenizer", from |-> mid, id |-> id]
        e1 == [e EXCEPT !.tokenizer = tok]
        log1 == [log0 EXCEPT !.tokenizer_from = mid]
        \* cls._model = AutoModelForSequenceClassification.from_pretrained(model_id)
        mdl0 == [kind |-> "model", from |-> mid, id |-> id, on |-> "None", eval |-> FALSE]
        e2 == [e1 EXCEPT !.model = mdl0]
        log2 == [log1 EXCEPT !.model_from = mid]
        \* cls._model.to(cls._device); cls._model.eval()
        e3 == [e2 EXCEPT !.model = [mdl0 EXCEPT !.on = e.device, !.eval = TRUE]]
        \* the label encoder's path
        src == label_encoder_source(use_local, f, fail)
        log3 == [log2 EXCEPT !.hub_called = src.hub_called]
        \* cls._label_encoder = pickle.load(f)
        enc == [kind |-> "label_encoder", from |-> src.from, id |-> id]
        e4 == [e3 EXCEPT !.label_encoder = enc]
        log4 == [log3 EXCEPT !.encoder_from = src.from, !.completed = TRUE]
    IN  IF fail = "tokenizer"
        THEN [engine |-> e, raised |-> TRUE, log |-> log0, cause |-> fail]
        ELSE IF fail = "model"
        THEN [engine |-> e1, raised |-> TRUE, log |-> log1, cause |-> fail]
        ELSE IF fail = "to_device"
        THEN [engine |-> e2, raised |-> TRUE, log |-> log2, cause |-> fail]
        ELSE IF src.raised
        THEN [engine |-> e3, raised |-> TRUE, log |-> log3,
              cause |-> IF src.hub_called THEN "download" ELSE ENCODER_NOT_FOUND]
        ELSE IF fail = "unpickle"
        THEN [engine |-> e3, raised |-> TRUE, log |-> log3, cause |-> fail]
        ELSE [engine |-> e4, raised |-> FALSE, log |-> log4, cause |-> "none"]

\* raise RuntimeError(f"Failed to load model: {str(e)}")  (infer.py:102-104)
load_failed(cause) == <<"Failed to load model", cause>>

\* load_model without its `if cls._model is None` test
load_model_reloads(e, f, model_id, device, fail, id) ==
    LET e0 == IF device # NoDevice THEN [e EXCEPT !.device = device] ELSE e
        r == LoadBranch(e0, f, model_id, fail, id)
    IN  [engine |-> r.engine,
         outcome |-> IF r.raised THEN "RuntimeError" ELSE "ok",
         cause |-> r.cause,
         message |-> IF r.raised THEN load_failed(r.cause) ELSE <<>>,
         log |-> r.log]

\* ModelLoader.load_model (infer.py:61-106): the device argument is stored
\* first, then the branch runs only when no model is cached; any exception
\* of the branch is re-raised as RuntimeError.
load_model(e, f, model_id, device, fail, id) ==
    LET e0 == IF device # NoDevice THEN [e EXCEPT !.device = device] ELSE e
    IN  IF e0.model = None
        THEN LET r == LoadBranch(e0, f, model_id, fail, id)
             IN  [engine |-> r.engine,
                  outcome |-> IF r.raised THEN "RuntimeError" ELSE "ok",
                  cause |-> r.cause,
                  message |-> IF r.raised THEN load_failed(r.cause) ELSE <<>>,
                  log |-> r.log]
        ELSE [engine |-> e0, outcome |-> "ok", cause |-> "none", message |-> <<>>,
              log |-> NoLoad]

\* ModelLoader.get_model (infer.py:108-113): lazy load with the defaults
get_model(e, f, fail, id) ==
    IF e.model = None
    THEN load_model(e, f, HF_MODEL_ID, NoDevice, fail, id)
    ELSE [engine |-> e, outcome |-> "ok", cause |-> "none", message |-> <<>>,
          log |-> NoLoad]

\* the 4-tuple get_model returns (infer.py:113)
Handed(e) == <<e.model, e.tokenizer, e.label_encoder, e.device>>

\* the values callers of set_device try
DeviceArgs == {"cpu", "cuda", "tpu"}

\* a list of accepted devices that also has tpu
valid_devices_wide == {"cpu", "cuda", "tpu"}

\* set_device's accepted values (infer.py:284)
valid_devices == {"cpu", "cuda"}

\* the classes of the pickled LabelEncoder, by class index
Labels == <<"Bearish", "Bullish", "Neutral">>

\* label_encoder.inverse_transform([idx])[0] (infer.py:164, 240)
inverse_transform(idx) == Labels[idx + 1]

\* The forward pass, softmax, argmax and max of one row (infer.py:231-237):
\* the class index and the confidence (in 1/10000) the model gives a text.
\* The model is deterministic per text; its values are not the subject here.
forward(text) ==
    [pred_idx |-> Len(text) % Len(Labels), conf |-> 9000 - 1000 * Len(text)]

\* what callers pass to predict: strings and two values that are not strings
PredictArgs == TextValues \cup {None, [kind |-> "int", val |-> 7]}

\* all lists of at most n text values
RECURSIVE ListsUpTo(_)
ListsUpTo(n) ==
    IF n = 0 THEN {<<>>}
    ELSE LET shorter == ListsUpTo(n - 1)
         IN  shorter \cup {Append(l, t) : l \in {x \in shorter : Len(x) = n - 1},
                                          t \in TextValues}

\* what callers pass to predict_batch: lists of texts, and one tuple
BatchArgs ==
    {[kind |-> "list", items |-> l] : l \in ListsUpTo(MaxTexts)}
        \cup {[kind |-> "tuple", items |-> <<Str(<<"a">>)>>], None}

BatchSizes == (-1 .. MaxBatch) \cup {BATCH_SIZE}

\* [str(t).strip() for t in texts if t]  (infer.py:206)
RECURSIVE valid_texts(_)
valid_texts(items) ==
    IF items = <<>> THEN <<>>
    ELSE IF Truthy(Head(items))
         THEN <<strip(Head(items).chars)>> \o valid_texts(Tail(items))
         ELSE valid_texts(Tail(items))

Min(a, b) == IF a < b THEN a ELSE b

\* number of values of range(0, n, step) for step > 0
NumChunks(n, step) == IF step <= 0 THEN 0 ELSE (n + step - 1) \div step

\* one chunk (infer.py:218-245): one record per text of the batch, in order
chunk_records(batch) ==
    [j \in 1 .. Len(batch) |->
        [text |-> batch[j],
         sentiment |-> inverse_transform(forward(batch[j]).pred_idx),
         confidence |-> forward(batch[j]).conf]]

\* what the tokenizer or the forward pass says when it raises
INFERENCE_ERROR == "tokenizer or forward pass error"
\* label_encoder.inverse_transform on a label encoder that is None
NONE_HAS_NO_ATTRIBUTE == "'NoneType' object has no attribute 'inverse_transform'"
\* range(0, n, 0)
RANGE_STEP_ZERO == "range() arg 3 must not be zero"

\* valid_texts[i:i + batch_size - 1]: a slice one short
batch_slice_short(valid, i, batch_size) ==
    SubSeq(valid, i + 1, Min(i + batch_size - 1, Len(valid)))

\* valid_texts[i:i + batch_size + 1]: a slice one long
batch_slice_long(valid, i, batch_size) ==
    SubSeq(valid, i + 1, Min(i + batch_size + 1, Len(valid)))

\* batch = valid_texts[i:i + batch_size] (infer.py:218), i 0-based
batch_slice(valid, i, batch_size) ==
    SubSeq(valid, i + 1, Min(i + batch_size, Len(valid)))

\* the loop `for i in range(0, len(valid_texts), batch_size)` from index i on
\* (0-based as in the code), chunk number k; bad_chunk is the chunk whose
\* tokenization or forward pass raises (0: none)
RECURSIVE loop_from(_, _, _, _, _, _, _)
loop_from(valid, batch_size, encoder, bad_chunk, i, k, acc) ==
    IF i >= Len(valid)
    THEN [raised |-> FALSE, results |-> acc.results, chunks |-> acc.chunks, cause |-> "none"]
    ELSE LET batch == batch_slice(valid, i, batch_size)
         IN  IF k = bad_chunk
             THEN [raised |-> TRUE, results |-> acc.results, chunks |-> acc.chunks,
                   cause |-> INFERENCE_ERROR]
             ELSE IF encoder = None
             THEN [raised |-> TRUE, results |-> acc.results, chunks |-> acc.chunks,
                   cause |-> NONE_HAS_NO_ATTRIBUTE]
             ELSE loop_from(valid, batch_size, encoder, bad_chunk, i + batch_size, k + 1,
                            [results |-> acc.results \o chunk_records(batch),
                             chunks |-> Append(acc.chunks, batch)])

\* the loop with a chunk's exception caught inside it: what was collected
\* before the bad chunk is returned
batch_loop_partial(valid, batch_size, encoder, bad_chunk) ==
    IF batch_size = 0
    THEN [raised |-> TRUE, results |-> <<>>, chunks |-> <<>>, cause |-> RANGE_STEP_ZERO]
    ELSE IF batch_size < 0
    THEN [raised |-> FALSE, results |-> <<>>, chunks |-> <<>>, cause |-> "none"]
    ELSE [loop_from(valid, batch_size, encoder, bad_chunk, 0, 1,
                    [results |-> <<>>, chunks |-> <<>>]) EXCEPT !.raised = FALSE]

\* infer.py:214-248: range() raises ValueError for a zero step, and is empty
\* for a negative one
batch_loop(valid, batch_size, encoder, bad_chunk) ==
    IF batch_size = 0
    THEN [raised |-> TRUE, results |-> <<>>, chunks |-> <<>>, cause |-> RANGE_STEP_ZERO]
    ELSE IF batch_size < 0
    THEN [raised |-> FALSE, results |-> <<>>, chunks |-> <<>>, cause |-> "none"]
    ELSE loop_from(valid, batch_size, encoder, bad_chunk, 0, 1,
                   [results |-> <<>>, chunks |-> <<>>])

\* raise RuntimeError("Prediction failed"): the cause's message dropped
prediction_failed_bare(message) == <<"Prediction failed">>

\* raise RuntimeError(f"Prediction failed: {str(e)}")  (infer.py:180-182)
prediction_failed(message) == <<"Prediction failed">> \o message

\* raise RuntimeError(f"Batch prediction failed: {str(e)}")  (infer.py:250-252)
batch_prediction_failed(message) == <<"Batch prediction failed">> \o message

\* The record of a call: what was called with what, the engine before it,
\* how it ended (outcome, the exception's message, the exception first
\* raised), what a load read, what get_model handed over, the chunks that
\* were processed to the end, the chunk the environment made fail, the
\* texts load_file read before it filtered them, the csv column it took,
\* whether fetch_rss called the feed parser, the calls made inside the call
\* with what they returned, and what was returned.
NoCall == [op |-> "none", args |-> <<>>, pre |-> None, outcome |-> "none",
           cause |-> "none", message |-> <<>>,
           log |-> NoLoad, handed |-> None, chunks |-> <<>>, bad_chunk |-> 0,
           read |-> <<>>, text_col |-> "None", fetched |-> FALSE,
           inner |-> <<>>, result |-> None]

\* The class attributes as the class body sets them (infer.py:50-54); DEVICE
\* is cuda or cpu by what the machine has (infer.py:15).
Unloaded ==
    /\ _model = None
    /\ _tokenizer = None
    /\ _label_encoder = None
    /\ _device \in Devices
    /\ attempts = 0
    /\ loads = 0
    /\ last = NoCall

\* the batches the callers of the engine hold
List(items) == [kind |-> "list", items |-> items]
EngineBatches ==
    {List(<<>>), List(<<Str(<<>>), Str(<<WS>>)>>), List(<<Str(<<"a">>), Str(<<WS, "b">>)>>)}

Init ==
    /\ Unloaded
    /\ fs \in FileSystems
    /\ in_texts \in EngineBatches
    /\ in_batch_size \in {1, BATCH_SIZE}
    /\ in_file = None
    /\ in_feed = None
    /\ in_save = None
    /\ pc = Parked

\* every batch within the bounds, on a machine with no local model and no
\* cuda device
InitBatch ==
    /\ Unloaded
    /\ _device = "cpu"
    /\ fs = [dir |-> FALSE, config |-> FALSE, encoder |-> FALSE]
    /\ in_texts \in BatchArgs
    /\ in_batch_size \in BatchSizes
    /\ in_file = None
    /\ in_feed = None
    /\ in_save = None
    /\ pc = Parked

\* a load attempt takes the next instance id; attempts are bounded
CanAttempt(e) == e.model = None => attempts < MaxAttempts

SetEngine(e, log) ==
    /\ _model' = e.model
    /\ _tokenizer' = e.tokenizer
    /\ _label_encoder' = e.label_encoder
    /\ _device' = e.device
    /\ attempts' = IF log.entered THEN attempts + 1 ELSE attempts
    /\ loads' = IF log.completed THEN loads + 1 ELSE loads
    /\ UNCHANGED <<fs, in_texts, in_batch_size, in_file, in_feed, in_save, pc>>

\* a caller calls ModelLoader.load_model(model_id, device)
LoadModel ==
    \E model_id \in ModelIds, device \in Devices \cup {NoDevice}, fail \in FailPoints :
        /\ device = NoDevice => CanAttempt(Engine)
        /\ device # NoDevice => CanAttempt([Engine EXCEPT !.device = device])
        /\ Engine.model # None => fail = "none"
        /\ LET r == load_model(Engine, fs, model_id, device, fail, attempts + 1)
           IN  /\ SetEngine(r.engine, r.log)
               /\ last' = [NoCall EXCEPT !.op = "load_model",
                                         !.args = <<model_id, device>>,
                                         !.pre = Engine,
                                         !.outcome = r.outcome,
                                         !.cause = r.cause,
                                         !.message = r.message,
                                         !.log = r.log,
                                         !.result = IF r.outcome = "ok"
                                                    THEN <<r.engine.model, r.engine.tokenizer,
                                                           r.engine.label_encoder>>
                                                    ELSE None]

\* a caller calls ModelLoader.get_model()
GetModel ==
    \E fail \in FailPoints :
        /\ CanAttempt(Engine)
        /\ Engine.model # None => fail = "none"
        /\ LET r == get_model(Engine, fs, fail, attempts + 1)
           IN  /\ SetEngine(r.engine, r.log)
               /\ last' = [NoCall EXCEPT !.op = "get_model",
                                         !.pre = Engine,
                                         !.outcome = r.outcome,
                                         !.cause = r.cause,
                                         !.message = r.message,
                                         !.log = r.log,
                                         !.handed = IF r.outcome = "ok"
                                                    THEN Handed(r.engine) ELSE None]

INVALID_DEVICE == "Device must be one of ['cpu', 'cuda']"

\* set_device (infer.py:277-289)
SetDevice ==
    \E device \in DeviceArgs :
        /\ IF device \notin valid_devices
           THEN /\ UNCHANGED <<_model, _tokenizer, _label_encoder, _device>>
                /\ last' = [NoCall EXCEPT !.op = "set_device", !.args = <<device>>,
                                          !.pre = Engine, !.outcome = "ValueError",
                                          !.cause = INVALID_DEVICE,
                                          !.message = <<INVALID_DEVICE>>]
           ELSE /\ _device' = device
                /\ UNCHANGED <<_model, _tokenizer, _label_encoder>>
                /\ last' = [NoCall EXCEPT !.op = "set_device", !.args = <<device>>,
                                          !.pre = Engine, !.outcome = "ok"]
        /\ UNCHANGED <<fs, attempts, loads, in_texts, in_batch_size, in_file, in_feed, in_save, pc>>

\* a call that raises during input validation touches nothing
Rejected(op, args, why) ==
    /\ UNCHANGED <<_model, _tokenizer, _label_encoder, _device, fs, attempts, loads,
                   in_texts, in_batch_size, in_file, in_feed, in_save, pc>>
    /\ last' = [NoCall EXCEPT !.op = op, !.args = args, !.pre = Engine,
                              !.outcome = "ValueError",
                              !.cause = why, !.message = <<why>>]

\* predict's validation testing for emptiness before trimming
predict_rejects_untrimmed(text) ==
    IF ~IsStr(text) THEN TRUE
    ELSE text.chars = <<>>

\* predict's input validation (infer.py:133-139): TRUE when it raises ValueError
predict_rejects(text) ==
    IF ~IsStr(text) THEN TRUE
    ELSE strip(text.chars) = <<>>

\* the message of that ValueError (infer.py:135, 139)
predict_complaint(text) ==
    IF ~IsStr(text) THEN "Text must be a string" ELSE "Text cannot be empty"

\* predict (infer.py:116-182)
Predict ==
    \E text \in PredictArgs, fail \in FailPoints, infer_fails \in BOOLEAN :
        IF predict_rejects(text)
        THEN /\ fail = "none" /\ ~infer_fails
             /\ Rejected("predict", <<text>>, predict_complaint(text))
        ELSE /\ CanAttempt(Engine)
             /\ Engine.model # None => fail = "none"
             /\ LET r == get_model(Engine, fs, fail, attempts + 1)
                    stripped == strip(text.chars)
                    \* tokenizer, forward pass or label lookup raises
                    broken == infer_fails \/ r.engine.label_encoder = None
                    ok == r.outcome = "ok" /\ ~broken
                    cause == IF r.outcome # "ok" THEN r.cause
                             ELSE IF infer_fails THEN INFERENCE_ERROR
                             ELSE IF broken THEN NONE_HAS_NO_ATTRIBUTE
                             ELSE "none"
                    raised == IF r.outcome # "ok" THEN r.message ELSE <<cause>>
                IN  /\ r.outcome # "ok" => ~infer_fails
                    /\ SetEngine(r.engine, r.log)
                    /\ last' = [NoCall EXCEPT
                          !.op = "predict", !.args = <<text>>, !.pre = Engine,
                          !.outcome = IF ok THEN "ok" ELSE "RuntimeError",
                          !.cause = cause,
                          !.message = IF ok THEN <<>> ELSE prediction_failed(raised),
                          !.log = r.log,
                          !.handed = IF r.outcome = "ok" THEN Handed(r.engine) ELSE None,
                          !.result = IF ok
                                     THEN [kind |-> "dict",
                                           sentiment |-> inverse_transform(forward(stripped).pred_idx),
                                           confidence |-> forward(stripped).conf]
                                     ELSE None]

\* predict_batch's input validation (infer.py:199-208): TRUE when it raises
\* ValueError
predict_batch_rejects(texts) ==
    IF ~Truthy(texts) THEN TRUE
    ELSE IF texts.kind # "list" THEN TRUE
    ELSE valid_texts(texts.items) = <<>>

\* the message of that ValueError (infer.py:200, 203, 208)
predict_batch_complaint(texts) ==
    IF ~Truthy(texts) THEN "Texts list cannot be empty"
    ELSE IF texts.kind # "list" THEN "Texts must be a list"
    ELSE "No valid texts found"

\* predict_batch (infer.py:185-252)
PredictBatch ==
    \E fail \in FailPoints, bad_chunk \in 0 .. MaxTexts :
        IF predict_batch_rejects(in_texts)
        THEN /\ fail = "none" /\ bad_chunk = 0
             /\ Rejected("predict_batch", <<in_texts, in_batch_size>>,
                         predict_batch_complaint(in_texts))
        ELSE /\ CanAttempt(Engine)
             /\ Engine.model # None => fail = "none"
             /\ LET r == get_model(Engine, fs, fail, attempts + 1)
                    valid == valid_texts(in_texts.items)
                    run == IF r.outcome = "ok"
                           THEN batch_loop(valid, in_batch_size, r.engine.label_encoder, bad_chunk)
                           ELSE [raised |-> TRUE, results |-> <<>>, chunks |-> <<>>,
                                 cause |-> r.cause]
                    raised == IF r.outcome # "ok" THEN r.message ELSE <<run.cause>>
                IN  /\ r.outcome # "ok" => bad_chunk = 0
                    /\ bad_chunk <= NumChunks(Len(valid), in_batch_size)
                    /\ SetEngine(r.engine, r.log)
                    /\ last' = [NoCall EXCEPT
                          !.op = "predict_batch", !.args = <<in_texts, in_batch_size>>,
                          !.pre = Engine,
                          !.outcome = IF run.raised THEN "RuntimeError" ELSE "ok",
                          !.cause = run.cause,
                          !.message = IF run.raised THEN batch_prediction_failed(raised)
                                      ELSE <<>>,
                          !.chunks = run.chunks,
                          !.bad_chunk = bad_chunk,
                          !.log = r.log,
                          !.handed = IF r.outcome = "ok" THEN Handed(r.engine) ELSE None,
                          !.result = IF run.raised THEN None
                                     ELSE [kind |-> "list", items |-> run.results]]

Next ==
    \/ LoadModel
    \/ GetModel
    \/ SetDevice
    \/ Predict
    \/ PredictBatch

Spec == Init /\ [][Next]_vars

NextBatch == PredictBatch

SpecBatch == InitBatch /\ [][NextBatch]_vars

(***************************************************************************)
(* load_file (src/core/io_utils.py)                                        *)
(***************************************************************************)
MaxCols == 2
MaxRows == 1
MaxItems == 2

\* str.lower() on the characters a suffix is written with
lower_char(c) ==
    CASE c = "C" -> "c" [] c = "S" -> "s" [] c = "V" -> "v"
      [] c = "J" -> "j" [] c = "O" -> "o" [] c = "N" -> "n"
      [] c = "T" -> "t" [] c = "X" -> "x"
      [] c = "M" -> "m" [] c = "D" -> "d"
      [] OTHER -> c

\* the suffix compared as it is written
ext_as_written(suffix) == suffix

\* ext = path.suffix.lower()  (io_utils.py:36)
ext_lower(suffix) == [k \in 1 .. Len(suffix) |-> lower_char(suffix[k])]

CSV == <<".", "c", "s", "v">>
JSON == <<".", "j", "s", "o", "n">>
TXT == <<".", "t", "x", "t">>
MD == <<".", "m", "d">>

\* the suffixes files are written with: supported ones in several cases,
\* others, and none
CsvSuffixes == {CSV, <<".", "C", "s", "V">>}
JsonSuffixes == {JSON, <<".", "J", "S", "O", "N">>}
TextSuffixes == {TXT, <<".", "T", "X", "T">>, MD, <<".", "M", "d">>}
OtherSuffixes == {<<".", "x", "y", "z">>, <<".", "c", "s", "v", "x">>, <<>>}
Suffixes == CsvSuffixes \cup JsonSuffixes \cup TextSuffixes \cup OtherSuffixes

\* the messages of load_file's exceptions
FILE_NOT_FOUND == "File not found"
NOT_A_FILE == "Path is not a file"
CSV_EMPTY == "CSV file is empty"
COLUMN_NOT_FOUND == "Column not found"
INVALID_JSON == "Invalid JSON structure"
UNSUPPORTED_FORMAT == "Unsupported format"
NO_VALID_TEXT == "No valid text data found"
PARSE_ERROR == "parse error"
NO_ATTRIBUTE_GET == "object has no attribute 'get'"

\* a csv file as pandas reads it: a header of distinct names and rows of
\* cells; an empty cell is read as NaN
ColumnNames == {"id", "date", "text", "body"}
NaN == [kind |-> "nan"]
Cells == {Str(<<"a">>), Str(<<WS>>), NaN}
Headers ==
    {h \in UNION {[1 .. n -> ColumnNames] : n \in 1 .. MaxCols} :
        \A i, j \in 1 .. Len(h) : i # j => h[i] # h[j]}
Tables(headers) ==
    UNION {{[kind |-> "table", header |-> h, rows |-> rows] :
               rows \in UNION {[1 .. r -> [1 .. Len(h) -> Cells]] : r \in 0 .. MaxRows}} :
           h \in headers}

\* the sequences of at most n elements of a set
SeqsUpTo(S, n) == UNION {[1 .. m -> S] : m \in 0 .. n}

\* a json document: a scalar, a list, or an object with a "text" member,
\* an "items" member, or other members only
JStr(chars) == [kind |-> "str", chars |-> chars]
JNum == [kind |-> "int"]
JNull == [kind |-> "None"]
JObj(text) == [kind |-> "dict", members |-> "text", text |-> text]
JObjNoText == [kind |-> "dict", members |-> "other", values |-> <<>>]
JsonItems ==
    {JStr(<<"a">>), JStr(<<WS>>), JStr(<<>>), JNum, JNull,
     JObj(JStr(<<"a">>)), JObj(JStr(<<>>)), JObjNoText}
JsonLists == {[kind |-> "list", items |-> l] : l \in SeqsUpTo(JsonItems, MaxItems)}
JsonDocs ==
    JsonLists
    \cup {JNum, JNull, JStr(<<"a">>)}
    \cup {JObj(v) : v \in {JStr(<<"a">>), JStr(<<WS>>), JNull}}
    \cup {[kind |-> "dict", members |-> "items", items |-> l] :
             l \in SeqsUpTo({JObj(JStr(<<"a">>)), JObj(JStr(<<>>)), JObjNoText, JStr(<<"a">>)},
                            MaxItems)}
    \cup {[kind |-> "dict", members |-> "other", values |-> l] :
             l \in SeqsUpTo({JStr(<<"a">>), JStr(<<>>), JNum}, MaxItems)}

\* a text file: its lines
TextFiles == {[kind |-> "lines", lines |-> l] : l \in SeqsUpTo(TextChars, MaxItems)}

\* a file no parser can read
Unreadable == [kind |-> "unreadable"]

\* the column argument: None, or a name
Column(name) == [kind |-> "str", name |-> name]
ColumnArgs == {None, Column(""), Column("text"), Column("body")}

\* what a caller passes and what the path leads to: nothing or a directory,
\* under any suffix
PathInputs ==
    {[exists |-> e, is_file |-> FALSE, suffix |-> x, content |-> None,
      column |-> None, skip_empty |-> TRUE] : e \in BOOLEAN, x \in Suffixes}

\* a .csv file read with each column argument
CsvInputs(tables) ==
    {[exists |-> TRUE, is_file |-> TRUE, suffix |-> CSV, content |-> c,
      column |-> col, skip_empty |-> TRUE] :
        c \in tables \cup {Unreadable}, col \in ColumnArgs}

\* a csv file under another spelling of the suffix, and one read unfiltered
CsvInputsAuto(tables) ==
    {[exists |-> TRUE, is_file |-> TRUE, suffix |-> x, content |-> c,
      column |-> None, skip_empty |-> (x # CSV)] :
        x \in CsvSuffixes, c \in tables}

JsonInputs ==
    {[exists |-> TRUE, is_file |-> TRUE, suffix |-> x, content |-> c,
      column |-> None, skip_empty |-> sk] :
        x \in JsonSuffixes, c \in JsonDocs \cup {Unreadable}, sk \in BOOLEAN}

TextInputs ==
    {[exists |-> TRUE, is_file |-> TRUE, suffix |-> x, content |-> c,
      column |-> None, skip_empty |-> sk] :
        x \in TextSuffixes, c \in TextFiles, sk \in BOOLEAN}

\* a file of any content under a suffix that is none of the four
OtherInputs(tables) ==
    {[exists |-> TRUE, is_file |-> TRUE, suffix |-> x, content |-> c,
      column |-> None, skip_empty |-> TRUE] :
        x \in OtherSuffixes,
        c \in tables \cup JsonDocs \cup TextFiles \cup {Unreadable}}

\* str() of a json value and of a cell (astype(str), io_utils.py:62)
str_of(v) ==
    CASE v.kind = "str" -> v.chars
      [] v.kind = "int" -> <<"1">>
      [] v.kind = "None" -> <<"N", "o", "n", "e">>
      [] v.kind = "nan" -> <<"n", "a", "n">>
      [] OTHER -> <<"{", "}">>

\* a starting value of the text reading
Raised(outcome, cause) ==
    [outcome |-> outcome, cause |-> cause, texts |-> <<>>, text_col |-> "None"]
Read(texts, text_col) ==
    [outcome |-> "ok", cause |-> "none", texts |-> texts, text_col |-> text_col]

\* the names tried in the reverse order
common_names_reversed == <<"body", "message", "sentence", "title", "content", "text">>

\* io_utils.py:53
common_names == <<"text", "content", "title", "sentence", "message", "body">>

\* the first of common_names in the header, None if there is none
\* (io_utils.py:54-58)
RECURSIVE first_common(_, _)
first_common(names, header) ==
    IF names = <<>> THEN "None"
    ELSE IF \E k \in 1 .. Len(header) : header[k] = Head(names) THEN Head(names)
    ELSE first_common(Tail(names), header)

\* the .csv branch (io_utils.py:40-62)
read_csv(content, column) ==
    IF content.kind # "table" THEN Raised("ValueError", PARSE_ERROR)
    ELSE IF content.rows = <<>> THEN Raised("ValueError", CSV_EMPTY)
    ELSE LET header == content.header
             found == first_common(common_names, header)
             text_col == IF column # None /\ column.name # ""
                         THEN column.name
                         ELSE IF found # "None" THEN found ELSE header[1]
         IN  IF \A k \in 1 .. Len(header) : header[k] # text_col
             THEN Raised("ValueError", COLUMN_NOT_FOUND)
             ELSE LET at == CHOOSE k \in 1 .. Len(header) : header[k] = text_col
                  IN  Read([r \in 1 .. Len(content.rows) |-> str_of(content.rows[r][at])],
                           text_col)

\* item.get("text", item) on a json value that has .get
get_text(item) == IF item.members = "text" THEN item.text ELSE item

\* the .json branch (io_utils.py:64-80)
read_json(data) ==
    IF data.kind \in {"unreadable", "table", "lines"} THEN Raised("ValueError", PARSE_ERROR)
    ELSE IF data.kind = "list"
    THEN IF \E k \in 1 .. Len(data.items) : data.items[k].kind \notin {"str", "int", "dict"}
         THEN Raised("AttributeError", NO_ATTRIBUTE_GET)
         ELSE Read([k \in 1 .. Len(data.items) |->
                       IF data.items[k].kind \in {"str", "int"}
                       THEN str_of(data.items[k])
                       ELSE str_of(get_text(data.items[k]))], "None")
    ELSE IF data.kind = "dict"
    THEN IF data.members = "text" THEN Read(<<str_of(data.text)>>, "None")
         ELSE IF data.members = "items"
         THEN IF \E k \in 1 .. Len(data.items) : data.items[k].kind # "dict"
              THEN Raised("AttributeError", NO_ATTRIBUTE_GET)
              ELSE Read([k \in 1 .. Len(data.items) |-> str_of(get_text(data.items[k]))],
                        "None")
         ELSE Read([k \in 1 .. Len(data.values) |-> str_of(data.values[k])], "None")
    ELSE Raised("ValueError", INVALID_JSON)

\* f.readlines() (io_utils.py:84): the lines of a text file; of a file in
\* another format, its text line by line (the header and one line per row
\* of a table, the lines of a json document, the one empty line of a file
\* without data)
readlines(content) ==
    CASE content.kind = "lines" -> content.lines
      [] content.kind = "table" ->
            <<<<"header">>>> \o [r \in 1 .. Len(content.rows) |-> <<"row">>]
      [] content.kind = "unreadable" -> <<<<>>>>
      [] OTHER -> <<<<"json">>>>

\* the .txt/.md branch (io_utils.py:82-85)
read_lines(content) ==
    LET lines == readlines(content)
    IN  Read([k \in 1 .. Len(lines) |-> strip(lines[k])], "None")

\* a filter that keeps every text that is not the empty string
keep_truthy(texts) == SelectSeq(texts, LAMBDA t : t # <<>>)

\* [t for t in texts if t and len(t.strip()) > 0]  (io_utils.py:92)
keep_nonblank(texts) == SelectSeq(texts, LAMBDA t : t # <<>> /\ Len(strip(t)) > 0)

\* load_file (io_utils.py:11-102): the outcome, the message of what was
\* raised, the texts read before the filter, the csv column and the result
load_file(f) ==
    IF ~f.exists THEN Raised("FileNotFoundError", FILE_NOT_FOUND) @@ [result |-> None]
    ELSE IF ~f.is_file THEN Raised("ValueError", NOT_A_FILE) @@ [result |-> None]
    ELSE LET ext == ext_lower(f.suffix)
             got == IF ext = CSV THEN read_csv(f.content, f.column)
                    ELSE IF ext = JSON THEN read_json(f.content)
                    ELSE IF ext \in {TXT, MD} THEN read_lines(f.content)
                    ELSE Raised("ValueError", UNSUPPORTED_FORMAT)
             texts == IF f.skip_empty THEN keep_nonblank(got.texts) ELSE got.texts
         IN  IF got.outcome # "ok" THEN got @@ [result |-> None]
             ELSE IF texts = <<>>
             THEN [got EXCEPT !.outcome = "ValueError", !.cause = NO_VALID_TEXT]
                  @@ [result |-> None]
             ELSE got @@ [result |-> [kind |-> "list", items |-> texts]]

\* the engine of a process that only reads files and feeds
Idle ==
    /\ Unloaded
    /\ fs = [dir |-> FALSE, config |-> FALSE, encoder |-> FALSE]
    /\ in_texts = List(<<>>)
    /\ in_batch_size = BATCH_SIZE
    /\ pc = Parked

InitFile ==
    /\ Idle
    /\ \/ in_file \in PathInputs
       \/ in_file \in CsvInputs(Tables(Headers))
       \/ in_file \in CsvInputsAuto(Tables(Headers))
       \/ in_file \in JsonInputs
       \/ in_file \in TextInputs
       \/ in_file \in OtherInputs(Tables({h \in Headers : Len(h) = 1}))
    /\ in_feed = None
    /\ in_save = None

\* a caller calls load_file(path, column, skip_empty)
LoadFile ==
    LET r == load_file(in_file)
    IN  /\ in_file # None
        /\ last' = [NoCall EXCEPT !.op = "load_file", !.args = <<in_file>>,
                                  !.pre = Engine, !.outcome = r.outcome,
                                  !.cause = r.cause,
                                  !.message = IF r.outcome = "ok" THEN <<>> ELSE <<r.cause>>,
                                  !.read = r.texts, !.text_col = r.text_col,
                                  !.result = r.result]
        /\ UNCHANGED <<_model, _tokenizer, _label_encoder, _device, fs, attempts, loads,
                       in_texts, in_batch_size, in_file, in_feed, in_save, pc>>

NextFile == LoadFile

SpecFile == InitFile /\ [][NextFile]_vars

(***************************************************************************)
(* save_results (src/core/io_utils.py)                                     *)
(***************************************************************************)
\* the records predict_batch returns for the texts a caller classified; a
\* text is what strip() left of an element
SavedTexts == {<<>>, <<"a">>, <<"a", "b">>}
ResultLists == {chunk_records(t) : t \in SeqsUpTo(SavedTexts, MaxItems)}

\* the format names callers pass
Formats == {"csv", "json", "txt", "xml", "JSON", ""}

\* the output path before a call: nothing there, or an older text file
OutputPaths ==
    {[exists |-> FALSE, is_file |-> FALSE, suffix |-> x, content |-> None,
      column |-> None, skip_empty |-> TRUE] : x \in {JSON, CSV, TXT, <<".", "x", "y", "z">>}}
    \cup {[exists |-> TRUE, is_file |-> TRUE, suffix |-> JSON,
           content |-> [kind |-> "lines", lines |-> <<<<"a">>>>],
           column |-> None, skip_empty |-> TRUE]}

\* a number as json.dump and to_csv write it and the readers read it
Number(n) == [kind |-> "int", value |-> n]

\* json.dump that writes the records last to first
json_dump_reversed(results) ==
    [kind |-> "list",
     items |-> [k \in 1 .. Len(results) |->
                   [kind |-> "dict", members |-> "text",
                    text |-> JStr(results[Len(results) + 1 - k].text),
                    sentiment |-> JStr(<<results[Len(results) + 1 - k].sentiment>>),
                    confidence |-> Number(results[Len(results) + 1 - k].confidence)]]]

\* json.dump(results, f, indent=2, ensure_ascii=False)  (io_utils.py:123-124):
\* the document json.load reads from the written file
json_dump(results) ==
    [kind |-> "list",
     items |-> [k \in 1 .. Len(results) |->
                   [kind |-> "dict", members |-> "text",
                    text |-> JStr(results[k].text),
                    sentiment |-> JStr(<<results[k].sentiment>>),
                    confidence |-> Number(results[k].confidence)]]]

\* pd.DataFrame(results).to_csv(output_path, index=False)  (io_utils.py:119-120):
\* the table pd.read_csv reads from the written file; an empty text is
\* written as an empty field, which is read as NaN, and a frame without
\* records is written without a header, which cannot be read
to_csv(results) ==
    IF results = <<>> THEN Unreadable
    ELSE [kind |-> "table", header |-> <<"text", "sentiment", "confidence">>,
          rows |-> [k \in 1 .. Len(results) |->
                       <<IF results[k].text = <<>> THEN NaN ELSE Str(results[k].text),
                         Str(<<results[k].sentiment>>),
                         Number(results[k].confidence)>>]]

\* the four lines written per record (io_utils.py:128-132); the confidence
\* is written with four decimals
RECURSIVE to_txt(_)
to_txt(results) ==
    IF results = <<>> THEN <<>>
    ELSE << <<"Text:", WS>> \o Head(results).text,
            <<"Sentiment:", WS, Head(results).sentiment>>,
            <<"Confidence:", WS, "0.dddd">>,
            <<"-">> >> \o to_txt(Tail(results))

\* a regular file at the output path with the given content
Written(file, content) ==
    [file EXCEPT !.exists = TRUE, !.is_file = TRUE, !.content = content]

\* a save_results that writes csv for a format it does not know
save_results_csv_fallback(results, file, format) ==
    IF format = "json"
    THEN [outcome |-> "ok", cause |-> "none", file |-> Written(file, json_dump(results))]
    ELSE IF format = "txt"
    THEN [outcome |-> "ok", cause |-> "none",
          file |-> Written(file, [kind |-> "lines", lines |-> to_txt(results)])]
    ELSE [outcome |-> "ok", cause |-> "none", file |-> Written(file, to_csv(results))]

\* save_results (io_utils.py:105-140): the outcome and the output path after it
save_results(results, file, format) ==
    IF format = "csv"
    THEN [outcome |-> "ok", cause |-> "none", file |-> Written(file, to_csv(results))]
    ELSE IF format = "json"
    THEN [outcome |-> "ok", cause |-> "none", file |-> Written(file, json_dump(results))]
    ELSE IF format = "txt"
    THEN [outcome |-> "ok", cause |-> "none",
          file |-> Written(file, [kind |-> "lines", lines |-> to_txt(results)])]
    ELSE [outcome |-> "ValueError", cause |-> UNSUPPORTED_FORMAT, file |-> file]

InitSave ==
    /\ Idle
    /\ in_file \in OutputPaths
    /\ in_feed = None
    /\ in_save \in {[results |-> r, format |-> f] : r \in ResultLists, f \in Formats}

\* a caller calls save_results(results, output_path, format)
SaveResults ==
    LET r == save_results(in_save.results, in_file, in_save.format)
    IN  /\ in_save # None
        /\ in_file' = r.file
        /\ last' = [NoCall EXCEPT !.op = "save_results", !.args = <<in_save, in_file>>,
                                  !.pre = Engine, !.outcome = r.outcome,
                                  !.cause = r.cause,
                                  !.message = IF r.outcome = "ok" THEN <<>> ELSE <<r.cause>>]
        /\ UNCHANGED <<_model, _tokenizer, _label_encoder, _device, fs, attempts, loads,
                       in_texts, in_batch_size, in_feed, in_save, pc>>

NextSave ==
    \/ SaveResults
    \/ LoadFile

SpecSave == InitSave /\ [][NextSave]_vars

(***************************************************************************)
(* fetch_rss (src/core/rss.py)                                             *)
(***************************************************************************)
MaxEntries == 3

\* what urlparse makes of the url argument: it raises, or it yields a
\* scheme and a netloc, each possibly empty
Urls ==
    {[parses |-> TRUE, scheme |-> x, netloc |-> h] :
        x \in {"", "https"}, h \in {"", "feeds.example.com"}}
    \cup {[parses |-> FALSE, scheme |-> "", netloc |-> ""]}

\* the titles feed entries come with: none, empty, the placeholder, blank,
\* and a headline
NA == <<"N", "/", "A">>
Titles == {None, Str(<<>>), Str(NA), Str(<<WS>>), Str(<<"a">>)}

\* a feed's entries, each with its link; the link tells the entries apart
EntriesOf(titles) == [k \in 1 .. Len(titles) |-> [title |-> titles[k], link |-> k]]

\* what feedparser.parse does with the url: it raises, or it returns a
\* feed, well-formed or not (bozo), with entries
Feeds ==
    {[raises |-> TRUE, bozo |-> FALSE, entries |-> <<>>]}
    \cup {[raises |-> FALSE, bozo |-> b, entries |-> EntriesOf(t)] :
             b \in BOOLEAN, t \in SeqsUpTo(Titles, MaxEntries)}

\* the max_entries argument: None, or an integer
IntArg(n) == [kind |-> "int", value |-> n]
MaxEntriesArgs == {None} \cup {IntArg(n) : n \in -1 .. MaxEntries}

FeedInputs ==
    {[url |-> u, feed |-> f, max_entries |-> m] :
        u \in {v \in Urls : v.parses /\ v.scheme # "" /\ v.netloc # ""},
        f \in Feeds, m \in MaxEntriesArgs}
    \cup {[url |-> u, feed |-> f, max_entries |-> None] : u \in Urls, f \in Feeds}

\* the messages of fetch_rss's exceptions
INVALID_URL == "Invalid URL"
INVALID_URL_FORMAT == "Invalid URL format"
URLPARSE_ERROR == "urlparse error"
FETCH_FAILED == "Failed to fetch RSS feed"
FEED_ERROR == "feed error"

\* a url is taken when it has a scheme or a netloc
url_valid_either(result) == result.scheme # "" \/ result.netloc # ""

\* all([result.scheme, result.netloc])  (rss.py:28)
url_valid(result) == result.scheme # "" /\ result.netloc # ""

\* entry.get('title', 'N/A')  (rss.py:53)
title_of(entry) == IF entry.title = None THEN NA ELSE entry.title.chars

\* the loop without its test of the title: every entry is returned, the
\* ones with an empty title too
RECURSIVE fetch_loop_keeps_all(_, _, _, _)
fetch_loop_keeps_all(feed_entries, max_entries, i, entries) ==
    IF i >= Len(feed_entries) THEN entries
    ELSE IF max_entries # None /\ max_entries.value # 0 /\ i >= max_entries.value
    THEN entries
    ELSE LET entry == feed_entries[i + 1]
         IN  fetch_loop_keeps_all(feed_entries, max_entries, i + 1,
                 Append(entries, [title |-> title_of(entry), link |-> entry.link]))

\* the loop over feed.entries (rss.py:47-62) from the 0-based index i on
RECURSIVE fetch_loop(_, _, _, _)
fetch_loop(feed_entries, max_entries, i, entries) ==
    IF i >= Len(feed_entries) THEN entries
    ELSE IF max_entries # None /\ max_entries.value # 0 /\ i >= max_entries.value
    THEN entries
    ELSE LET entry == feed_entries[i + 1]
             title == title_of(entry)
         IN  fetch_loop(feed_entries, max_entries, i + 1,
                        IF title # <<>> /\ title # NA
                        THEN Append(entries, [title |-> title, link |-> entry.link])
                        ELSE entries)

\* a fetch_rss that raises for a feed flagged malformed
fetch_rss_bozo_raises(url, feed, max_entries) ==
    IF ~url.parses
    THEN [outcome |-> "ValueError", message |-> <<INVALID_URL, URLPARSE_ERROR>>,
          fetched |-> FALSE, result |-> None]
    ELSE IF ~url_valid(url)
    THEN [outcome |-> "ValueError", message |-> <<INVALID_URL, INVALID_URL_FORMAT>>,
          fetched |-> FALSE, result |-> None]
    ELSE IF feed.raises \/ feed.bozo
    THEN [outcome |-> "ValueError", message |-> <<FETCH_FAILED, FEED_ERROR>>,
          fetched |-> TRUE, result |-> None]
    ELSE [outcome |-> "ok", message |-> <<>>, fetched |-> TRUE,
          result |-> [kind |-> "list",
                      items |-> fetch_loop(feed.entries, max_entries, 0, <<>>)]]

\* fetch_rss (rss.py:10-69): the outcome, the exception's message, whether
\* feedparser.parse was called, and the entries returned
fetch_rss(url, feed, max_entries) ==
    IF ~url.parses
    THEN [outcome |-> "ValueError", message |-> <<INVALID_URL, URLPARSE_ERROR>>,
          fetched |-> FALSE, result |-> None]
    ELSE IF ~url_valid(url)
    THEN [outcome |-> "ValueError", message |-> <<INVALID_URL, INVALID_URL_FORMAT>>,
          fetched |-> FALSE, result |-> None]
    ELSE IF feed.raises
    THEN [outcome |-> "ValueError", message |-> <<FETCH_FAILED, FEED_ERROR>>,
          fetched |-> TRUE, result |-> None]
    ELSE IF feed.entries = <<>>
    THEN [outcome |-> "ok", message |-> <<>>, fetched |-> TRUE,
          result |-> [kind |-> "list", items |-> <<>>]]
    ELSE [outcome |-> "ok", message |-> <<>>, fetched |-> TRUE,
          result |-> [kind |-> "list",
                      items |-> fetch_loop(feed.entries, max_entries, 0, <<>>)]]

InitRss ==
    /\ Idle
    /\ in_file = None
    /\ in_feed \in FeedInputs
    /\ in_save = None

\* a caller calls fetch_rss(url, max_entries)
FetchRss ==
    LET r == fetch_rss(in_feed.url, in_feed.feed, in_feed.max_entries)
    IN  /\ in_feed # None
        /\ last' = [NoCall EXCEPT !.op = "fetch_rss", !.args = <<in_feed>>,
                                  !.pre = Engine, !.outcome = r.outcome,
                                  !.cause = IF r.outcome = "ok" THEN "none"
                                            ELSE r.message[Len(r.message)],
                                  !.message = r.message,
                                  !.fetched = r.fetched,
                                  !.result = r.result]
        /\ UNCHANGED <<_model, _tokenizer, _label_encoder, _device, fs, attempts, loads,
                       in_texts, in_batch_size, in_file, in_feed, in_save, pc>>

\* a validate_rss_feed that fetches every entry
validate_rss_feed_all(url, feed) ==
    LET r == fetch_rss(url, feed, None)
    IN  [called |-> [op |-> "fetch_rss", max_entries |-> None,
                     outcome |-> r.outcome, result |-> r.result],
         outcome |-> "ok",
         result |-> [kind |-> "bool",
                     value |-> r.outcome = "ok" /\ Len(r.result.items) > 0]]

\* validate_rss_feed (rss.py:87-101): the call it makes, and what it returns
validate_rss_feed(url, feed) ==
    LET r == fetch_rss(url, feed, IntArg(1))
    IN  [called |-> [op |-> "fetch_rss", max_entries |-> IntArg(1),
                     outcome |-> r.outcome, result |-> r.result],
         outcome |-> "ok",
         result |-> [kind |-> "bool",
                     value |-> r.outcome = "ok" /\ Len(r.result.items) > 0]]

\* a caller calls validate_rss_feed(url)
ValidateRssFeed ==
    LET r == validate_rss_feed(in_feed.url, in_feed.feed)
    IN  /\ in_feed # None
        /\ last' = [NoCall EXCEPT !.op = "validate_rss_feed", !.args = <<in_feed>>,
                                  !.pre = Engine, !.outcome = r.outcome,
                                  !.inner = <<r.called>>,
                                  !.fetched = fetch_rss(in_feed.url, in_feed.feed,
                                                        IntArg(1)).fetched,
                                  !.result = r.result]
        /\ UNCHANGED <<_model, _tokenizer, _label_encoder, _device, fs, attempts, loads,
                       in_texts, in_batch_size, in_file, in_feed, in_save, pc>>

NextRss ==
    \/ FetchRss
    \/ ValidateRssFeed

SpecRss == InitRss /\ [][NextRss]_vars


(***************************************************************************)
(* The feed pipeline: the rss command (src/cli.py:165-240) and the web     *)
(* form's feed tab (src/gui.py:118-166).  Both validate the feed, fetch    *)
(* its entries, classify the titles with predict_batch and attach to       *)
(* result i values of entries[i].  The feed answers both fetches alike.    *)
(***************************************************************************)
Frontends == {"cli", "gui"}

\* predict_batch (infer.py:185-252) as a function of the engine e it
\* finds, of what get_model returns to it (g) and of the chunk that fails
predict_batch(e, texts, batch_size, g, bad_chunk) ==
    IF predict_batch_rejects(texts)
    THEN [outcome |-> "ValueError", cause |-> predict_batch_complaint(texts),
          message |-> <<predict_batch_complaint(texts)>>,
          engine |-> e, log |-> NoLoad, result |-> None]
    ELSE IF g.outcome # "ok"
    THEN [outcome |-> "RuntimeError", cause |-> g.cause,
          message |-> batch_prediction_failed(g.message),
          engine |-> g.engine, log |-> g.log, result |-> None]
    ELSE LET run == batch_loop(valid_texts(texts.items), batch_size,
                               g.engine.label_encoder, bad_chunk)
         IN  [outcome |-> IF run.raised THEN "RuntimeError" ELSE "ok",
              cause |-> run.cause,
              message |-> IF run.raised THEN batch_prediction_failed(<<run.cause>>)
                          ELSE <<>>,
              engine |-> g.engine, log |-> g.log,
              result |-> IF run.raised THEN None ELSE List(run.results)]

\* headlines = [entry['title'] for entry in entries]  (cli.py:197, gui.py:145)
headlines(entries) == List([k \in 1 .. Len(entries) |-> Str(entries[k].title)])

\* for i, result in enumerate(results): result[...] = entries[i].get(...)
\* (cli.py:202-204, gui.py:151-154); entries[i] raises IndexError past the
\* end of entries.  The link stands for the values an entry has of its
\* own (link, published).
add_metadata(results, entries) ==
    IF Len(results) > Len(entries)
    THEN [outcome |-> "IndexError", result |-> None]
    ELSE [outcome |-> "ok",
          result |-> List([i \in 1 .. Len(results) |->
                              [text |-> results[i].text,
                               sentiment |-> results[i].sentiment,
                               confidence |-> results[i].confidence,
                               link |-> entries[i].link]])]

\* a call the handler makes, as the record of the handler keeps it
Call(op, max_entries, r) ==
    [op |-> op, max_entries |-> max_entries, outcome |-> r.outcome, result |-> r.result]

\* the handler (cli.py:179-240, gui.py:128-166), the device left at auto
\* and no output file asked for, as a function of what its calls return:
\* valid is what validate_rss_feed(url) returned, fetched what
\* fetch_rss(url, max_entries) returns, and p what predict_batch returns
\* for the titles of the entries fetched.  It gives the calls made, how the
\* handler ended, and the engine it leaves.
classify_rss(front, e, max_entries, valid, fetched, p) ==
    IF ~valid
    THEN [inner |-> <<>>, outcome |-> "invalid feed",
          message |-> <<IF front = "cli" THEN "Could not fetch valid RSS feed"
                        ELSE "Invalid RSS feed URL">>,
          engine |-> e, log |-> NoLoad, result |-> None]
    ELSE IF fetched.outcome # "ok"
    THEN [inner |-> <<Call("fetch_rss", max_entries, fetched)>>, outcome |-> "error",
          message |-> fetched.message, engine |-> e, log |-> NoLoad, result |-> None]
    ELSE IF front = "gui" /\ fetched.result.items = <<>>
    THEN [inner |-> <<Call("fetch_rss", max_entries, fetched)>>, outcome |-> "no entries",
          message |-> <<"No entries found in RSS feed">>,
          engine |-> e, log |-> NoLoad, result |-> None]
    ELSE IF p.outcome # "ok"
    THEN [inner |-> <<Call("fetch_rss", max_entries, fetched), Call("predict_batch", None, p)>>,
          outcome |-> "error", message |-> p.message,
          engine |-> p.engine, log |-> p.log, result |-> None]
    ELSE [inner |-> <<Call("fetch_rss", max_entries, fetched), Call("predict_batch", None, p)>>,
          outcome |-> IF add_metadata(p.result.items, fetched.result.items).outcome = "ok"
                      THEN "ok" ELSE "error",
          message |-> IF add_metadata(p.result.items, fetched.result.items).outcome = "ok"
                      THEN <<>> ELSE <<"IndexError">>,
          engine |-> p.engine, log |-> p.log,
          result |-> add_metadata(p.result.items, fetched.result.items).result]

\* the feeds the handlers are run on: feedparser raises, or the feed has
\* entries whose titles are empty, blank or a headline
PipelineFeeds ==
    {[raises |-> TRUE, bozo |-> FALSE, entries |-> <<>>]}
    \cup {[raises |-> FALSE, bozo |-> FALSE, entries |-> EntriesOf(t)] :
             t \in SeqsUpTo({Str(<<>>), Str(<<WS>>), Str(<<"a">>)}, MaxEntries)}

PipelineInputs ==
    {[url |-> u, feed |-> f, max_entries |-> m] :
        u \in {v \in Urls : v.parses /\ v.netloc # ""}, f \in PipelineFeeds,
        m \in {None, IntArg(-1), IntArg(0), IntArg(2)}}

InitFeed ==
    /\ Idle
    /\ in_file = None
    /\ in_feed \in PipelineInputs
    /\ in_save = None

\* the titles handed to predict_batch when the fetch returned entries
titles_of(fetched) ==
    IF fetched.outcome = "ok" THEN headlines(fetched.result.items) ELSE List(<<>>)

ClassifyRss(front) ==
    \E fail \in FailPoints, bad_chunk \in 0 .. 1 :
        /\ in_feed # None
        /\ CanAttempt(Engine)
        /\ Engine.model # None => fail = "none"
        /\ \E valid \in {validate_rss_feed(in_feed.url, in_feed.feed).result.value},
              fetched \in {fetch_rss(in_feed.url, in_feed.feed, in_feed.max_entries)},
              g \in {get_model(Engine, fs, fail, attempts + 1)} :
           \E p \in {predict_batch(Engine, titles_of(fetched), BATCH_SIZE, g, bad_chunk)} :
           \E r \in {classify_rss(front, Engine, in_feed.max_entries, valid, fetched, p)} :
              /\ Len(r.inner) < 2 => fail = "none"
              /\ (Len(r.inner) < 2 \/ p.outcome = "ValueError"
                     \/ (r.log.entered /\ ~r.log.completed)) => bad_chunk = 0
              /\ p.outcome = "ValueError" => fail = "none"
              /\ SetEngine(r.engine, r.log)
              /\ last' = [NoCall EXCEPT !.op = front, !.args = <<in_feed>>,
                                        !.pre = Engine, !.outcome = r.outcome,
                                        !.message = r.message, !.inner = r.inner,
                                        !.log = r.log, !.bad_chunk = bad_chunk,
                                        !.result = r.result]

\* fnc rss <url> --max <max_entries>
RssCommand == ClassifyRss("cli")

\* the feed tab's handler classify_rss_feed(url, max_entries)
ClassifyRssFeed == ClassifyRss("gui")

NextFeed ==
    \/ RssCommand
    \/ ClassifyRssFeed

SpecFeed == InitFeed /\ [][NextFeed]_vars


(***************************************************************************)
(* get_model called from several threads (src/core/infer.py:61-113).       *)
(* Every statement that reads or writes a class attribute is a step of its *)
(* own; nothing in the class holds a lock.                                 *)
(***************************************************************************)
InitThreads ==
    /\ Idle
    /\ in_file = None
    /\ in_feed = None
    /\ in_save = None

Goto(t, at) == pc' = [pc EXCEPT ![t].at = at]

\* a step of a thread that changes only the attributes it names
Keep(attrs) ==
    /\ "model" \notin attrs => _model' = _model
    /\ "tokenizer" \notin attrs => _tokenizer' = _tokenizer
    /\ "label_encoder" \notin attrs => _label_encoder' = _label_encoder
    /\ "attempts" \notin attrs => attempts' = attempts
    /\ "loads" \notin attrs => loads' = loads
    /\ "last" \notin attrs => last' = last
    /\ UNCHANGED <<_device, fs, in_texts, in_batch_size, in_file, in_feed, in_save>>

\* the exception of a library call leaves load_model as RuntimeError
\* (infer.py:102-104) and get_model with it
ThreadRaises(t, cause) ==
    /\ Goto(t, "idle")
    /\ last' = [NoCall EXCEPT !.op = "get_model", !.args = <<t>>, !.pre = Engine,
                              !.outcome = "RuntimeError", !.cause = cause,
                              !.message = load_failed(cause)]

\* a test of `cls._model is None` that also looks for a thread inside the
\* load branch, and takes the attribute as set when there is one
sees_no_model_unless_loading(e, positions) ==
    /\ e.model = None
    /\ \A u \in Threads :
          positions[u].at \notin {"tokenizer", "model", "to", "eval", "encoder"}

\* `cls._model is None` (infer.py:68, 110): the test reads the class
\* attribute; where the other threads are plays no part in it
sees_no_model(e, positions) == e.model = None

\* a thread calls ModelLoader.get_model()
ThreadCall(t) ==
    /\ pc[t].at = "idle"
    /\ Goto(t, "get_check")
    /\ Keep({})

\* if cls._model is None: cls.load_model()  (infer.py:110-111)
ThreadGetCheck(t) ==
    /\ pc[t].at = "get_check"
    /\ IF sees_no_model(Engine, pc) THEN Goto(t, "load_check") ELSE Goto(t, "get_return")
    /\ Keep({})

\* if cls._model is None:  (infer.py:68); the device argument is None
ThreadLoadCheck(t) ==
    /\ pc[t].at = "load_check"
    /\ IF sees_no_model(Engine, pc)
       THEN /\ attempts < MaxAttempts
            /\ attempts' = attempts + 1
            /\ pc' = [pc EXCEPT ![t] = [at |-> "tokenizer", id |-> attempts + 1]]
       ELSE /\ Goto(t, "get_return")
            /\ attempts' = attempts
    /\ Keep({"attempts"})

\* cls._tokenizer = AutoTokenizer.from_pretrained(model_id)  (infer.py:79)
ThreadTokenizer(t) ==
    /\ pc[t].at = "tokenizer"
    /\ \/ /\ ThreadRaises(t, "tokenizer")
          /\ Keep({"last"})
       \/ /\ _tokenizer' = [kind |-> "tokenizer", from |-> HF_MODEL_ID, id |-> pc[t].id]
          /\ Goto(t, "model")
          /\ Keep({"tokenizer"})

\* cls._model = AutoModelForSequenceClassification.from_pretrained(model_id)
\* (infer.py:80)
ThreadModel(t) ==
    /\ pc[t].at = "model"
    /\ \/ /\ ThreadRaises(t, "model")
          /\ Keep({"last"})
       \/ /\ _model' = [kind |-> "model", from |-> HF_MODEL_ID, id |-> pc[t].id,
                        on |-> "None", eval |-> FALSE]
          /\ Goto(t, "to")
          /\ Keep({"model"})

\* cls._model.to(cls._device)  (infer.py:81): moves the object the
\* attribute holds at this moment
ThreadTo(t) ==
    /\ pc[t].at = "to"
    /\ \/ /\ ThreadRaises(t, "to_device")
          /\ Keep({"last"})
       \/ /\ _model' = [_model EXCEPT !.on = _device]
          /\ Goto(t, "eval")
          /\ Keep({"model"})

\* cls._model.eval()  (infer.py:82)
ThreadEval(t) ==
    /\ pc[t].at = "eval"
    /\ _model' = [_model EXCEPT !.eval = TRUE]
    /\ Goto(t, "encoder")
    /\ Keep({"model"})

\* hf_hub_download and cls._label_encoder = pickle.load(f)  (infer.py:91-98)
ThreadEncoder(t) ==
    /\ pc[t].at = "encoder"
    /\ \/ /\ ThreadRaises(t, "download")
          /\ Keep({"last"})
       \/ /\ _label_encoder' = [kind |-> "label_encoder", from |-> "remote", id |-> pc[t].id]
          /\ loads' = loads + 1
          /\ Goto(t, "get_return")
          /\ Keep({"label_encoder", "loads"})

\* return cls._model, cls._tokenizer, cls._label_encoder, cls._device
\* (infer.py:113)
ThreadGetReturn(t) ==
    /\ pc[t].at = "get_return"
    /\ last' = [NoCall EXCEPT !.op = "get_model", !.args = <<t>>, !.pre = Engine,
                              !.outcome = "ok", !.handed = Handed(Engine)]
    /\ Goto(t, "idle")
    /\ Keep({"last"})

NextThreads ==
    \E t \in Threads :
        \/ ThreadCall(t)
        \/ ThreadGetCheck(t)
        \/ ThreadLoadCheck(t)
        \/ ThreadTokenizer(t)
        \/ ThreadModel(t)
        \/ ThreadTo(t)
        \/ ThreadEval(t)
        \/ ThreadEncoder(t)
        \/ ThreadGetReturn(t)

SpecThreads == InitThreads /\ [][NextThreads]_vars

(***************************************************************************)
(* The engine states the claims speak of                                   *)
(***************************************************************************)
FullyLoaded(e) == e.model # None /\ e.tokenizer # None /\ e.label_encoder # None
Cached(e) == <<e.model, e.tokenizer, e.label_encoder>>
LoadOps == {"load_model", "get_model", "predict", "predict_batch"}

\* the identifier the caller of the last call passed to load_model
PassedId == IF last.op = "load_model" THEN last.args[1] ELSE HF_MODEL_ID

\* C1: a load_model call on a Loaded engine, whatever identifier and device
\* it is given, loads nothing and leaves model, tokenizer, label encoder and
\* target device as they were.
C1_LoadedLoadIsNoOp ==
    (last.op = "load_model" /\ FullyLoaded(last.pre))
        => (~last.log.entered /\ Engine = last.pre)

\* C2: a load_model call that raises leaves the engine Unloaded: model,
\* tokenizer and label encoder are all unset after it.
C2_FailedLoadLeavesUnloaded ==
    (last.op = "load_model" /\ last.outcome = "RuntimeError")
        => (_model = None /\ _tokenizer = None /\ _label_encoder = None)

\* C3: a load completes at most once, and once one has completed no call
\* enters the load branch again or changes the cached model, tokenizer or
\* label encoder, and every call that is handed the engine gets that instance.
C3_AtMostOneLoad ==
    /\ [](loads <= 1)
    /\ [][loads >= 1 =>
            /\ loads' = loads
            /\ ~last'.log.entered
            /\ Cached(Engine)' = Cached(Engine)
            /\ last'.handed # None =>
                 <<last'.handed[1], last'.handed[2], last'.handed[3]>> = Cached(Engine)
         ]_vars

\* a prediction served from the cache of an earlier load
C3_Witness ==
    /\ loads = 1
    /\ last.op \in {"predict", "predict_batch"}
    /\ last.outcome = "ok"
    /\ FullyLoaded(last.pre)
    /\ last.handed[1] = last.pre.model

\* C4: a load that takes the local directory as its source while the
\* directory has no label_encoder.pkl raises, caches no label encoder and
\* does not call the hub; with such a directory no call ever calls the hub.
C4_LocalWithoutEncoderFails ==
    (check_local_model(fs) /\ ~fs.encoder) =>
        /\ ~last.log.hub_called
        /\ (last.op \in LoadOps /\ last.log.entered) =>
              /\ last.log.use_local
              /\ last.outcome = "RuntimeError"
              /\ _label_encoder = None

\* load_model got as far as the label encoder in a local directory without one
C4_Witness ==
    /\ last.op = "load_model"
    /\ last.log.entered /\ last.log.use_local
    /\ last.log.model_from = LOCAL_MODEL_PATH
    /\ ~fs.encoder
    /\ last.outcome = "RuntimeError"

\* C5: a load from the Unloaded state reads tokenizer and model from the
\* local directory exactly when the directory exists and holds config.json,
\* and from the identifier the caller passed otherwise.
C5_SourceOfModel ==
    (last.op \in LoadOps /\ last.log.entered) =>
        LET local == fs.dir /\ fs.config
            want == IF local THEN LOCAL_MODEL_PATH ELSE PassedId
        IN  /\ last.pre.model = None
            /\ last.log.source = want
            /\ last.log.tokenizer_from \in {"None", want}
            /\ last.log.model_from \in {"None", want}
            /\ last.log.tokenizer_from # "None" => _tokenizer.from = want
            /\ last.log.model_from # "None" => _model.from = want

\* a directory without config.json: the caller's own identifier is loaded
C5_Witness ==
    /\ last.op = "load_model"
    /\ last.log.completed
    /\ fs.dir /\ ~fs.config
    /\ _model.from = OTHER_MODEL_ID
    /\ _tokenizer.from = OTHER_MODEL_ID

C7_PredictRejectsEmpty ==
    (last.op = "predict"
        /\ (last.args[1].kind # "str" \/ strip(last.args[1].chars) = <<>>))
        => /\ last.outcome = "ValueError"
           /\ ~last.log.entered
           /\ Engine = last.pre

\* a whitespace-only text is rejected on an engine that has loaded nothing
C7_Witness ==
    /\ last.op = "predict"
    /\ last.args[1] = Str(<<WS>>)
    /\ last.outcome = "ValueError"
    /\ _model = None /\ _tokenizer = None

\* the input elements that are not empty after trimming, trimmed, in order
RECURSIVE NonEmptyTrimmed(_)
NonEmptyTrimmed(items) ==
    IF items = <<>> THEN <<>>
    ELSE LET t == strip(Head(items).chars)
         IN  (IF t = <<>> THEN <<>> ELSE <<t>>) \o NonEmptyTrimmed(Tail(items))

IsBatchCall == last.op = "predict_batch" /\ last.args[1].kind = "list"

\* C8: predict_batch raises ValueError, loading nothing, for a list that is
\* empty or whose elements are all empty after trimming.
C8_BatchRejectsBlank ==
    (IsBatchCall /\ NonEmptyTrimmed(last.args[1].items) = <<>>)
        => /\ last.outcome = "ValueError"
           /\ ~last.log.entered
           /\ Engine = last.pre

\* C9: an accepted batch yields as many records as it has elements that are
\* not empty after trimming (batch_size >= 1).
C9_OneRecordPerText ==
    (IsBatchCall /\ last.outcome = "ok" /\ last.args[2] >= 1)
        => Len(last.result.items) = Len(NonEmptyTrimmed(last.args[1].items))

\* the input elements that survive the filter, trimmed, in input order
RECURSIVE Surviving(_)
Surviving(items) ==
    IF items = <<>> THEN <<>>
    ELSE (IF Head(items).chars = <<>> THEN <<>> ELSE <<strip(Head(items).chars)>>)
            \o Surviving(Tail(items))

\* C10: for every batch_size >= 1 the records follow the surviving input
\* texts one to one and in input order: the i-th record carries the i-th
\* surviving text, trimmed, with the label and confidence of that text;
\* none is moved, repeated or lost at a chunk boundary.
C10_OrderPreserved ==
    (IsBatchCall /\ last.outcome = "ok" /\ last.args[2] >= 1)
        => LET kept == Surviving(last.args[1].items)
               out == last.result.items
           IN  /\ Len(out) = Len(kept)
               /\ \A i \in 1 .. Len(out) :
                     /\ out[i].text = kept[i]
                     /\ out[i].sentiment = inverse_transform(forward(kept[i]).pred_idx)
                     /\ out[i].confidence = forward(kept[i]).conf

\* three elements, the middle one dropped, one text per chunk
C10_Witness ==
    /\ IsBatchCall /\ last.outcome = "ok"
    /\ last.args[2] = 1
    /\ last.args[1].items = <<Str(<<"a">>), Str(<<>>), Str(<<WS, "b">>)>>
    /\ Len(last.result.items) = 2
    /\ last.result.items[1].text = <<"a">>
    /\ last.result.items[2].text = <<"b">>

\* the concatenation of a sequence of sequences
RECURSIVE Flatten(_)
Flatten(ss) == IF ss = <<>> THEN <<>> ELSE Head(ss) \o Flatten(Tail(ss))

\* C11: for every batch_size >= 1 the chunks are contiguous pieces of the
\* surviving texts that cover them exactly once, none empty, none longer
\* than batch_size and only the last one shorter; and the records returned
\* are those of processing all surviving texts as one chunk.
C11_ChunkingIsInvisible ==
    (IsBatchCall /\ last.outcome = "ok" /\ last.args[2] >= 1)
        => LET kept == Surviving(last.args[1].items)
               ch == last.chunks
           IN  /\ Flatten(ch) = kept
               /\ \A k \in 1 .. Len(ch) :
                     /\ Len(ch[k]) >= 1
                     /\ Len(ch[k]) <= last.args[2]
                     /\ k < Len(ch) => Len(ch[k]) = last.args[2]
               /\ batch_loop(kept, Len(kept), last.handed[3], 0).chunks = <<kept>>
               /\ last.result.items = batch_loop(kept, Len(kept), last.handed[3], 0).results

\* three surviving texts in chunks of two: a full chunk and a shorter last one
C11_Witness ==
    /\ IsBatchCall /\ last.outcome = "ok"
    /\ last.args[2] = 2
    /\ Len(last.chunks) = 2
    /\ Len(last.chunks[1]) = 2
    /\ Len(last.chunks[2]) = 1
    /\ Len(last.result.items) = 3

\* C12: set_device accepts exactly "cpu" and "cuda"; any other value raises
\* ValueError and leaves the target device and the rest of the engine as
\* they were.
C12_SetDeviceValues ==
    last.op = "set_device" =>
        IF last.args[1] \in {"cpu", "cuda"}
        THEN last.outcome = "ok" /\ _device = last.args[1]
        ELSE last.outcome = "ValueError" /\ Engine = last.pre

\* set_device("tpu") on an engine whose device is cuda
C12_Witness ==
    /\ last.op = "set_device"
    /\ last.args[1] = "tpu"
    /\ last.outcome = "ValueError"
    /\ last.pre.device = "cuda" /\ _device = "cuda"

\* C13: set_device takes effect only on the next load.  On a Loaded engine
\* it changes nothing of what get_model hands to predictions, so a
\* prediction sends its inputs to the device the model was put on at load
\* time; on an Unloaded engine it loads nothing and the next load puts the
\* model on the chosen device.
C13_SetDeviceOnlyNextLoad ==
    /\ (last.op = "set_device" /\ FullyLoaded(last.pre))
          => Handed(Engine) = Handed(last.pre)
    /\ (last.op \in {"predict", "predict_batch"} /\ last.outcome = "ok")
          => last.handed[4] = last.handed[1].on
    /\ last.op = "set_device"
          => (~last.log.entered /\ Cached(Engine) = Cached(last.pre))
    /\ (last.log.completed /\ last.op # "load_model")
          => _model.on = last.pre.device

\* whether the last call, a predict or predict_batch, raised in its input
\* validation
FailedValidation ==
    IF last.op = "predict"
    THEN last.args[1].kind # "str" \/ strip(last.args[1].chars) = <<>>
    ELSE predict_batch_rejects(last.args[1])

\* C14: in predict and predict_batch whatever raises after the input
\* validation (the lazy load, tokenizer, forward pass, label lookup) reaches
\* the caller as RuntimeError whose message ends with the message of what
\* was raised first; what the validation raises reaches the caller as
\* ValueError, never wrapped.
C14_ErrorsSurface ==
    last.op \in {"predict", "predict_batch"} =>
        LET prefix == IF last.op = "predict" THEN "Prediction failed"
                      ELSE "Batch prediction failed"
        IN  IF FailedValidation
            THEN /\ last.outcome = "ValueError"
                 /\ last.message = <<last.cause>>
                 /\ last.cause \notin {"Prediction failed", "Batch prediction failed"}
            ELSE /\ last.outcome \in {"ok", "RuntimeError"}
                 /\ last.outcome = "ok" <=> last.cause = "none"
                 /\ last.outcome = "RuntimeError" =>
                       /\ Len(last.message) >= 2
                       /\ last.message[1] = prefix
                       /\ last.message[Len(last.message)] = last.cause

\* predict's lazy load fails at the tokenizer: the message carries the cause
C14_Witness ==
    /\ last.op = "predict"
    /\ last.outcome = "RuntimeError"
    /\ last.message = <<"Prediction failed", "Failed to load model", "tokenizer">>

\* C15: when a chunk fails predict_batch raises and returns nothing: the
\* records of the chunks before it are not returned and no chunk after it
\* is processed.
C15_BadChunkAborts ==
    (IsBatchCall /\ last.bad_chunk >= 1)
        => /\ last.outcome = "RuntimeError"
           /\ last.result = None
           /\ Len(last.chunks) < last.bad_chunk

\* three chunks of one text, the second fails after the first was processed
C15_Witness ==
    /\ IsBatchCall
    /\ last.args[2] = 1
    /\ Len(Surviving(last.args[1].items)) = 3
    /\ last.bad_chunk = 2
    /\ Len(last.chunks) = 1
    /\ last.outcome = "RuntimeError"
    /\ last.result = None

(***************************************************************************)
(* load_file                                                               *)
(***************************************************************************)
IsLoadFile == last.op = "load_file"
TheFile == last.args[1]

\* the spellings of the four supported extensions among the suffixes
SupportedSpellings ==
    {<<".", "c", "s", "v">>, <<".", "C", "s", "V">>,
     <<".", "j", "s", "o", "n">>, <<".", "J", "S", "O", "N">>,
     <<".", "t", "x", "t">>, <<".", "T", "X", "T">>,
     <<".", "m", "d">>, <<".", "M", "d">>}

\* C16: load_file classifies path and format errors in a fixed order: a
\* path that does not exist raises FileNotFoundError; a path that exists
\* and is not a regular file raises ValueError; and only a regular file
\* whose extension is none of .csv, .json, .txt, .md in any letter case
\* raises the unsupported-format ValueError, whatever the file holds.  No
\* other call ends in one of these three errors.
C16_PathErrorsInOrder ==
    IsLoadFile =>
        IF ~TheFile.exists
        THEN last.outcome = "FileNotFoundError" /\ last.cause = FILE_NOT_FOUND
        ELSE IF ~TheFile.is_file
        THEN last.outcome = "ValueError" /\ last.cause = NOT_A_FILE
        ELSE IF TheFile.suffix \notin SupportedSpellings
        THEN last.outcome = "ValueError" /\ last.cause = UNSUPPORTED_FORMAT
        ELSE last.cause \notin {FILE_NOT_FOUND, NOT_A_FILE, UNSUPPORTED_FORMAT}

\* a regular file named *.CsV is read as csv
C16_Witness ==
    /\ IsLoadFile
    /\ TheFile.is_file
    /\ TheFile.suffix = <<".", "C", "s", "V">>
    /\ last.outcome = "ok"
    /\ last.text_col = "text"

\* a directory with an unsupported suffix is reported as not a file
C16_WitnessOrder ==
    /\ IsLoadFile
    /\ TheFile.exists /\ ~TheFile.is_file
    /\ TheFile.suffix = <<".", "x", "y", "z">>
    /\ last.cause = NOT_A_FILE

NonBlank(t) == t # <<>> /\ strip(t) # <<>>

C17_WitnessEmpty ==
    /\ IsLoadFile /\ TheFile.skip_empty
    /\ TheFile.content.kind = "table"
    /\ last.read = <<<<WS>>>>
    /\ last.outcome = "ValueError"
    /\ last.cause = NO_VALID_TEXT

InHeader(name, header) == \E k \in 1 .. Len(header) : header[k] = name

\* C18: for a .csv file with data rows: a column the caller names is the
\* one read if the header has it, and the call raises ValueError if not;
\* with no column named, the first of text, content, title, sentence,
\* message, body that the header has is read; with none of them in the
\* header, the first column is read.  The texts read are that column's
\* cells.
C18_CsvColumn ==
    (/\ IsLoadFile
     /\ TheFile.is_file
     /\ TheFile.suffix \in {<<".", "c", "s", "v">>, <<".", "C", "s", "V">>}
     /\ TheFile.content.kind = "table"
     /\ TheFile.content.rows # <<>>)
        => LET header == TheFile.content.header
               rows == TheFile.content.rows
               named == TheFile.column # None /\ TheFile.column.name # ""
               want == IF named THEN TheFile.column.name
                       ELSE IF InHeader("text", header) THEN "text"
                       ELSE IF InHeader("content", header) THEN "content"
                       ELSE IF InHeader("title", header) THEN "title"
                       ELSE IF InHeader("sentence", header) THEN "sentence"
                       ELSE IF InHeader("message", header) THEN "message"
                       ELSE IF InHeader("body", header) THEN "body"
                       ELSE header[1]
           IN  IF ~InHeader(want, header)
               THEN named /\ last.outcome = "ValueError" /\ last.cause = COLUMN_NOT_FOUND
               ELSE /\ last.text_col = want
                    /\ last.cause \in {"none", NO_VALID_TEXT}
                    /\ Len(last.read) = Len(rows)
                    /\ \A r \in 1 .. Len(rows) :
                          \E k \in 1 .. Len(header) :
                             header[k] = want /\ last.read[r] = str_of(rows[r][k])

\* header (body, text), no column named: text is read, not the first column
C18_Witness ==
    /\ IsLoadFile
    /\ TheFile.content.kind = "table"
    /\ TheFile.content.header = <<"body", "text">>
    /\ TheFile.column = None
    /\ last.text_col = "text"
    /\ last.outcome = "ok"

\* header (date, id), no column named: the first column is read
C18_WitnessFirst ==
    /\ IsLoadFile
    /\ TheFile.content.kind = "table"
    /\ TheFile.content.header = <<"date", "id">>
    /\ TheFile.column = None
    /\ last.text_col = "date"
    /\ last.outcome = "ok"

(***************************************************************************)
(* fetch_rss                                                               *)
(***************************************************************************)
IsFetch == last.op = "fetch_rss"
TheUrl == last.args[1].url
TheMax == last.args[1].max_entries

\* C19: fetch_rss raises ValueError for every URL without a scheme or
\* without a host, and it does so before the feed is fetched.
C19_BadUrlRejectedBeforeFetch ==
    (IsFetch /\ (TheUrl.scheme = "" \/ TheUrl.netloc = ""))
        => /\ last.outcome = "ValueError"
           /\ last.message[1] = INVALID_URL
           /\ ~last.fetched
           /\ last.result = None

\* a URL with a scheme and no host, on a feed that would have had a headline
C19_Witness ==
    /\ IsFetch
    /\ TheUrl.parses /\ TheUrl.scheme = "https" /\ TheUrl.netloc = ""
    /\ Len(last.args[1].feed.entries) >= 1
    /\ last.outcome = "ValueError"
    /\ ~last.fetched

\* C20: the number of entries fetch_rss returns is capped by max_entries
\* whenever it is given: for every integer max_entries >= 0 the result has
\* at most max_entries entries; only with max_entries None is it uncapped.
C20_CappedByMax ==
    (IsFetch /\ last.outcome = "ok" /\ TheMax # None /\ TheMax.value >= 0)
        => Len(last.result.items) <= TheMax.value

TheFeed == last.args[1].feed
Usable(entry) ==
    /\ entry.title # None
    /\ entry.title.chars # <<>>
    /\ entry.title.chars # <<"N", "/", "A">>
UrlComplete(url) == url.parses /\ url.scheme # "" /\ url.netloc # ""

\* C21: fetch_rss returns the entries in feed order without the title-less
\* ones: the result is, in order, exactly those of the first max_entries
\* feed entries (all of them when max_entries is None) whose title is
\* present, non-empty and not 'N/A'; no returned entry lacks such a title.
C21_TitledEntriesInOrder ==
    (IsFetch /\ last.outcome = "ok" /\ (TheMax = None \/ TheMax.value >= 0))
        => LET n == IF TheMax = None THEN Len(TheFeed.entries)
                    ELSE Min(TheMax.value, Len(TheFeed.entries))
               kept == SelectSeq(SubSeq(TheFeed.entries, 1, n), Usable)
           IN  /\ last.result.items =
                     [k \in 1 .. Len(kept) |->
                         [title |-> kept[k].title.chars, link |-> kept[k].link]]
               /\ \A k \in 1 .. Len(last.result.items) :
                     /\ last.result.items[k].title # <<>>
                     /\ last.result.items[k].title # <<"N", "/", "A">>

\* C22: for a URL with scheme and host whose feed is parsed and has no
\* entries, fetch_rss returns the empty list and raises nothing, also when
\* the feed is flagged malformed.
C22_EmptyFeedIsNoError ==
    (/\ IsFetch
     /\ UrlComplete(TheUrl)
     /\ ~TheFeed.raises
     /\ TheFeed.entries = <<>>)
        => /\ last.outcome = "ok"
           /\ last.message = <<>>
           /\ last.result = [kind |-> "list", items |-> <<>>]

\* a malformed feed without entries
C22_Witness ==
    /\ IsFetch
    /\ UrlComplete(TheUrl)
    /\ TheFeed.bozo /\ ~TheFeed.raises
    /\ TheFeed.entries = <<>>
    /\ last.outcome = "ok"
    /\ last.result.items = <<>>

\* C23: validate_rss_feed never raises: it calls fetch_rss with max_entries
\* 1, returns True exactly when that call returns a list that is not
\* empty, and returns False whenever fetch_rss raises.
C23_ValidateNeverRaises ==
    last.op = "validate_rss_feed" =>
        /\ last.outcome = "ok"
        /\ last.result.kind = "bool"
        /\ Len(last.inner) = 1
        /\ last.inner[1].op = "fetch_rss"
        /\ last.inner[1].max_entries = [kind |-> "int", value |-> 1]
        /\ last.result.value <=>
              (last.inner[1].outcome = "ok" /\ last.inner[1].result.items # <<>>)
        /\ last.result.value <=>
              /\ UrlComplete(TheUrl)
              /\ ~TheFeed.raises
              /\ Len(TheFeed.entries) >= 1
              /\ Usable(TheFeed.entries[1])
        /\ (~UrlComplete(TheUrl) \/ TheFeed.raises) => ~last.result.value

\* a feed whose first entry has no title and whose second has one: False
C23_Witness ==
    /\ last.op = "validate_rss_feed"
    /\ UrlComplete(TheUrl) /\ ~TheFeed.raises
    /\ Len(TheFeed.entries) >= 2
    /\ ~Usable(TheFeed.entries[1]) /\ Usable(TheFeed.entries[2])
    /\ last.outcome = "ok"
    /\ last.result.value = FALSE

\* the feed cannot be fetched: False, and nothing raised
C23_WitnessError ==
    /\ last.op = "validate_rss_feed"
    /\ TheFeed.raises /\ UrlComplete(TheUrl)
    /\ last.inner[1].outcome = "ValueError"
    /\ last.outcome = "ok"
    /\ last.result.value = FALSE

(***************************************************************************)
(* save_results                                                            *)
(***************************************************************************)
IsSave == last.op = "save_results"

\* C24: save_results raises ValueError for every format name other than
\* csv, json and txt, and then the output path is as it was: no file is
\* written, and a file that was there keeps its content.
C24_UnknownFormatWritesNothing ==
    (IsSave /\ last.args[1].format \notin {"csv", "json", "txt"})
        => /\ last.outcome = "ValueError"
           /\ last.cause = UNSUPPORTED_FORMAT
           /\ in_file = last.args[2]

\* format "JSON" with two records and no file at the path
C24_Witness ==
    /\ IsSave
    /\ last.args[1].format = "JSON"
    /\ Len(last.args[1].results) = 2
    /\ last.outcome = "ValueError"
    /\ ~in_file.exists

\* the file at the output path is what save_results(format="json") wrote of
\* the caller's records, and it has been read back with load_file
ReadBackJson ==
    /\ IsLoadFile
    /\ in_save # None
    /\ in_save.format = "json"
    /\ TheFile.exists
    /\ TheFile.suffix = <<".", "j", "s", "o", "n">>
    /\ TheFile.content.kind = "list"
    /\ Len(TheFile.content.items) = Len(in_save.results)

\* the text, sentiment and confidence a caller finds in a value load_file
\* returned: load_file returns strings
FieldsOf(item) == [text |-> item, sentiment |-> "None", confidence |-> "None"]

\* C25: saving N prediction records with save_results(format="json") and
\* reading the written file back with load_file yields N records whose
\* text, sentiment and confidence are those written.
C25_JsonRoundTrip ==
    ReadBackJson =>
        /\ last.outcome = "ok"
        /\ Len(last.result.items) = Len(in_save.results)
        /\ \A k \in 1 .. Len(in_save.results) :
              FieldsOf(last.result.items[k]) = in_save.results[k]

\* C25 (as the code has it): the file written by save_results(format="json")
\* holds the N records in order with the text, sentiment and confidence
\* written; load_file reads the N text fields from it in order and returns
\* those that are not blank, and raises ValueError when none is left.
C25_JsonTextsRoundTrip ==
    ReadBackJson =>
        LET written == in_save.results
            texts == [k \in 1 .. Len(written) |-> written[k].text]
        IN  /\ \A k \in 1 .. Len(written) :
                  /\ TheFile.content.items[k].text.chars = written[k].text
                  /\ TheFile.content.items[k].sentiment.chars = <<written[k].sentiment>>
                  /\ TheFile.content.items[k].confidence.value = written[k].confidence
            /\ last.read = texts
            /\ IF \E k \in 1 .. Len(texts) : NonBlank(texts[k])
               THEN /\ last.outcome = "ok"
                    /\ last.result.items = SelectSeq(texts, NonBlank)
               ELSE /\ last.outcome = "ValueError"
                    /\ last.cause = NO_VALID_TEXT

\* two records with different texts written and their texts read back
C25_Witness ==
    /\ ReadBackJson
    /\ Len(in_save.results) = 2
    /\ in_save.results[1].text = <<"a", "b">>
    /\ in_save.results[2].text = <<"a">>
    /\ last.outcome = "ok"
    /\ last.result.items = << <<"a", "b">>, <<"a">> >>

(***************************************************************************)
(* Threads                                                                 *)
(***************************************************************************)
LoadSection == {"tokenizer", "model", "to", "eval", "encoder"}

\* C26: nothing excludes a second thread from the load: a thread that
\* finds no model at the test of load_model enters the load branch
\* whatever the other thread is doing, also while the other thread is
\* inside the branch; so both threads can be in the branch together and
\* the load can run to completion more than once (C26_Witness).
C26_NoMutualExclusion ==
    [][\A t \in Threads :
          (pc[t].at = "load_check" /\ _model = None /\ pc'[t] # pc[t])
              => pc'[t].at \in LoadSection]_vars

\* both threads passed the test and ran the load to its end: two loads, and
\* the label encoder of one load beside the model of the other is possible
C26_Witness ==
    /\ loads = 2
    /\ attempts = 2
    /\ \A t \in Threads : pc[t].id # 0
    /\ pc["t1"].id # pc["t2"].id

\* both threads inside the load branch at once
C26_WitnessBoth ==
    \A t \in Threads : pc[t].at \in LoadSection

\* C27: no caller runs inference on a partially initialised engine: in
\* every reachable state, after a failed load and under every interleaving
\* of callers, whenever get_model hands a model to a caller it hands a
\* tokenizer and a label encoder with it, and the model has been moved to
\* the device and put in evaluation mode.
C27_NeverPartiallyInitialised ==
    (last.op = "get_model" /\ last.outcome = "ok" /\ last.handed[1] # None)
        => /\ last.handed[2] # None
           /\ last.handed[3] # None
           /\ last.handed[1].on = last.handed[4]
           /\ last.handed[1].eval

\* C28: predict_batch never silently returns fewer records than it has
\* valid texts: for every integer batch_size, 0 and the negative ones
\* included, a call on a list either raises or returns exactly one record
\* for each surviving text.
C28_NeverFewerRecords ==
    (IsBatchCall /\ last.outcome = "ok")
        => Len(last.result.items) = Len(Surviving(last.args[1].items))

(***************************************************************************)
(* The feed pipeline                                                       *)
(***************************************************************************)
IsPipeline == last.op \in Frontends
Predicted == IsPipeline /\ Len(last.inner) = 2
FetchedEntries == last.inner[1].result.items

\* C29: in the feed pipeline (the rss command and the feed tab) metadata
\* stays aligned with predictions: whenever predict_batch returns for the
\* titles of the entries fetch_rss returned, it returns exactly one result
\* for each entry in the order of the entries, result i has the trimmed
\* title of entry i as its text and is given the values of entry i; the
\* indexing entries[i] never goes out of range; and predict_batch turns
\* down the titles only of an empty list of entries.
C29_FeedPipelineAligned ==
    /\ IsPipeline => last.message # <<"IndexError">>
    /\ (Predicted /\ last.inner[2].outcome = "ValueError") => FetchedEntries = <<>>
    /\ (Predicted /\ last.inner[2].outcome = "ok")
          => /\ last.outcome = "ok"
             /\ Len(last.inner[2].result.items) = Len(FetchedEntries)
             /\ Len(last.result.items) = Len(FetchedEntries)
             /\ \A i \in 1 .. Len(FetchedEntries) :
                   /\ last.inner[2].result.items[i].text = strip(FetchedEntries[i].title)
                   /\ last.result.items[i].text = strip(FetchedEntries[i].title)
                   /\ last.result.items[i].link = FetchedEntries[i].link

\* two entries, the first with a blank title and an entry of the feed
\* dropped between them, classified and paired
C29_Witness ==
    /\ Predicted
    /\ last.outcome = "ok"
    /\ Len(last.result.items) = 2
    /\ last.result.items[1].text = <<>>
    /\ last.result.items[2].link = 3

\* the rss command with no entries fetched: predict_batch raises
C29_WitnessEmpty ==
    /\ Predicted
    /\ last.op = "cli"
    /\ FetchedEntries = <<>>
    /\ last.inner[2].outcome = "ValueError"
====
